---- MODULE Spec2Model ----
(***************************************************************************)
(* Model of langchain_hwp_hwpx/loader.py: the single-file loader           *)
(* HwpHwpxLoader (a generator, one action per stage between two yields)    *)
(* and the directory loader HwpHwpxDirectoryLoader.                        *)
(*                                                                         *)
(* A python str is a sequence of tokens (TLA+ strings): a path is a        *)
(* sequence of one-character tokens, an f-string is the concatenation of   *)
(* its literal pieces and its fields.  None is the empty tuple where a     *)
(* value is optional.  The parser library (Reader, its result, tables,     *)
(* notes, memos, hyperlinks, images) is the environment: what it answers   *)
(* for a path is drawn in Init (fs) and read by the actions.               *)
(***************************************************************************)
EXTENDS Integers, Sequences, FiniteSets, TLC

VARIABLES
    fs,             \* the file system and the parser's answer per path
    args,           \* the arguments HwpHwpxLoader(...) is called with
    self,           \* the HwpHwpxLoader instance (its fields)
    pc,             \* the position of HwpHwpxLoader.lazy_load
    reader,         \* lazy_load local: the reader
    base_metadata,  \* lazy_load local
    result,         \* lazy_load local: the structured extraction result
    index,          \* _build_element_documents local: running element index
    pos,            \* position of the running for loop of the current stage
    docs,           \* the documents the consumer has received so far
    raised,         \* the exception that reached the caller (NoExc: none)
    log,            \* LOGGER.warning calls
    events,         \* calls made on the collaborator and the file system
    dargs,          \* the arguments HwpHwpxDirectoryLoader(...) is called with
    dself,          \* the HwpHwpxDirectoryLoader instance
    dpc,            \* the position of HwpHwpxDirectoryLoader.lazy_load
    globbed,        \* the order in which Path.glob enumerates the entries
    files,          \* _collect_files(): the sorted file list
    fidx            \* index in files of the file being processed

vars == <<fs, args, self, pc, reader, base_metadata, result, index, pos, docs,
          raised, log, events, dargs, dself, dpc, globbed, files, fidx>>

loaderVars == <<reader, base_metadata, result, index, pos>>
dirVars == <<dargs, dself, globbed, files>>

-----------------------------------------------------------------------------
(* Bounds of the environment drawn in Init.                                *)
MaxItems == 1
MaxNotes == 2
MaxLinks == 2

-----------------------------------------------------------------------------
(* str helpers                                                             *)

None == <<>>

Max(S) == CHOOSE x \in S : \A y \in S : y <= x

Range(s) == {s[i] : i \in 1..Len(s)}

\* the characters paths are made of, in ascending code point order
Chars == <<".", "/", "B", "H", "P", "W", "X", "a", "b", "c", "d", "h", "n",
           "p", "r", "s", "t", "u", "w", "x">>

Ord(c) == CHOOSE i \in 1..Len(Chars) : Chars[i] = c

LowerChar(c) ==
    CASE c = "B" -> "b" [] c = "H" -> "h" [] c = "P" -> "p"
      [] c = "W" -> "w" [] c = "X" -> "x"
      [] c = "Endnote" -> "endnote" [] c = "PNG" -> "png"
      [] OTHER -> c

UpperToken(c) ==
    CASE c = "encrypted" -> "ENCRYPTED" [] c = "invalid" -> "INVALID"
      [] OTHER -> c

\* str.lower / str.upper
Lower(s) == [i \in 1..Len(s) |-> LowerChar(s[i])]
Upper(s) == [i \in 1..Len(s) |-> UpperToken(s[i])]

Whitespace == {" ", "\n", "\n\n"}

\* str.strip
Strip(s) ==
    LET I == {i \in 1..Len(s) : s[i] \notin Whitespace}
    IN  IF I = {} THEN <<>>
        ELSE SubSeq(s, CHOOSE i \in I : \A j \in I : i <= j, Max(I))

\* a < b on python strings (lexicographic by code point)
LtStr(a, b) ==
    \E i \in 1..Len(b) :
        /\ i <= Len(a) + 1
        /\ \A j \in 1..(i - 1) : a[j] = b[j]
        /\ \/ i = Len(a) + 1
           \/ Ord(a[i]) < Ord(b[i])

\* sep.join(parts)
RECURSIVE Join(_, _)
Join(parts, sep) ==
    IF parts = <<>> THEN <<>>
    ELSE IF Len(parts) = 1 THEN parts[1]
    ELSE parts[1] \o sep \o Join(Tail(parts), sep)

\* sub in s
Contains(s, sub) ==
    \E i \in 1..(Len(s) - Len(sub) + 1) : SubSeq(s, i, i + Len(sub) - 1) = sub

EndsWith(s, sub) ==
    Len(s) >= Len(sub) /\ SubSeq(s, Len(s) - Len(sub) + 1, Len(s)) = sub

RFind(s, c) ==
    LET I == {i \in 1..Len(s) : s[i] = c}
    IN  IF I = {} THEN 0 ELSE Max(I)

\* dict.update: b wins on key collision
DictUpdate(a, b) ==
    [k \in DOMAIN a \cup DOMAIN b |-> IF k \in DOMAIN b THEN b[k] ELSE a[k]]

DictSet(a, k, v) == DictUpdate(a, [x \in {k} |-> v])

-----------------------------------------------------------------------------
(* pathlib.Path                                                            *)

PathName(p) == SubSeq(p, RFind(p, "/") + 1, Len(p))

PathSuffix(p) ==
    LET n == PathName(p)
        i == RFind(n, ".")
    IN  IF 1 < i /\ i < Len(n) THEN SubSeq(n, i, Len(n)) ELSE <<>>

\* p.split("/")
RECURSIVE Split(_)
Split(p) ==
    LET I == {i \in 1..Len(p) : p[i] = "/"}
    IN  IF I = {} THEN <<p>>
        ELSE LET i == CHOOSE k \in I : \A j \in I : k <= j
             IN  <<SubSeq(p, 1, i - 1)>> \o Split(SubSeq(p, i + 1, Len(p)))

StartsWith(s, sub) == Len(s) >= Len(sub) /\ SubSeq(s, 1, Len(sub)) = sub

\* s.replace(old, new)
RECURSIVE Replace(_, _, _)
Replace(s, old, new) ==
    IF Len(s) < Len(old) THEN s
    ELSE IF StartsWith(s, old)
    THEN new \o Replace(SubSeq(s, Len(old) + 1, Len(s)), old, new)
    ELSE <<s[1]>> \o Replace(Tail(s), old, new)

\* one segment of a glob pattern against one path component: '*' stands
\* for any run of characters, every other character for itself
RECURSIVE MatchName(_, _)
MatchName(pat, name) ==
    IF pat = <<>> THEN name = <<>>
    ELSE IF pat[1] = "*"
    THEN MatchName(Tail(pat), name) \/ (name # <<>> /\ MatchName(pat, Tail(name)))
    ELSE name # <<>> /\ name[1] = pat[1] /\ MatchName(Tail(pat), Tail(name))

\* the segments of a glob pattern against the components of a relative
\* path: a segment '**' stands for any number of directories, none included
RECURSIVE MatchPath(_, _)
MatchPath(segs, comps) ==
    IF segs = <<>> THEN comps = <<>>
    ELSE IF segs[1] = <<"*", "*">>
    THEN MatchPath(Tail(segs), comps) \/ (comps # <<>> /\ MatchPath(segs, Tail(comps)))
    ELSE comps # <<>> /\ MatchName(segs[1], comps[1])
         /\ MatchPath(Tail(segs), Tail(comps))

PathExists(p) == p \in DOMAIN fs /\ fs[p].kind # "missing"
PathIsFile(p) == p \in DOMAIN fs /\ fs[p].kind = "file"
PathIsDir(p) == p \in DOMAIN fs /\ fs[p].kind = "dir"

\* Path.glob(pattern): the entries below root the pattern matches
Glob(root, pattern) ==
    {p \in DOMAIN fs :
        /\ fs[p].kind # "missing"
        /\ StartsWith(p, root \o <<"/">>)
        /\ MatchPath(Split(pattern), Split(SubSeq(p, Len(root) + 2, Len(p))))}

\* the orders in which a set can be enumerated
Perms(S) ==
    {f \in [1..Cardinality(S) -> S] :
        \A i, j \in 1..Cardinality(S) : i # j => f[i] # f[j]}

-----------------------------------------------------------------------------
(* module constants and exceptions                                         *)

_VALID_MODES == {"single", "elements"}
_VALID_STATUS_POLICIES == {"raise", "skip", "placeholder"}
_VALID_ERROR_POLICIES == {"raise", "skip", "warn"}
_VALID_IMAGE_DOCUMENT_MODES == {"metadata_only", "save_and_reference"}
_SUPPORTED_EXTENSIONS == {<<".", "h", "w", "p">>, <<".", "h", "w", "p", "x">>}

\* an exception: its class, its message and its __cause__ (raise ... from exc)
NoExc == [cls |-> "None", msg |-> <<>>, cause |-> <<>>]
Exc(cls, msg) == [cls |-> cls, msg |-> msg, cause |-> <<>>]
ExcFrom(cls, msg, exc) == [cls |-> cls, msg |-> msg, cause |-> <<exc>>]

HwpHwpxLoaderError(msg) == Exc("HwpHwpxLoaderError", msg)
_SkipFile == Exc("_SkipFile", <<>>)

\* _validate_literal: the exception it raises, NoExc when the value is allowed
_validate_literal(value, name, allowed) ==
    IF value \notin allowed
    THEN Exc("ValueError", <<"Invalid ", name, "=", value>>)
    ELSE NoExc

\* the first exception of a sequence of checks run in order
RECURSIVE FirstExc(_)
FirstExc(checks) ==
    IF checks = <<>> THEN NoExc
    ELSE IF checks[1].cls # "None" THEN checks[1]
    ELSE FirstExc(Tail(checks))

\* faulty variant: __init__ without the validation of on_error
InitValidation_NoOnError(a) ==
    FirstExc(<<
        _validate_literal(a.mode, "mode", _VALID_MODES),
        _validate_literal(a.on_encrypted, "on_encrypted", _VALID_STATUS_POLICIES),
        _validate_literal(a.on_invalid, "on_invalid", _VALID_STATUS_POLICIES),
        _validate_literal(a.image_document_mode, "image_document_mode",
                          _VALID_IMAGE_DOCUMENT_MODES) >>)

\* HwpHwpxLoader.__init__, lines 140-146: the five validations, in order
InitValidation(a) ==
    FirstExc(<<
        _validate_literal(a.mode, "mode", _VALID_MODES),
        _validate_literal(a.on_encrypted, "on_encrypted", _VALID_STATUS_POLICIES),
        _validate_literal(a.on_invalid, "on_invalid", _VALID_STATUS_POLICIES),
        _validate_literal(a.on_error, "on_error", _VALID_ERROR_POLICIES),
        _validate_literal(a.image_document_mode, "image_document_mode",
                          _VALID_IMAGE_DOCUMENT_MODES) >>)

\* HwpHwpxLoader.__init__, lines 148-162: the instance
NewLoader(a) == a

NoLoader == <<>>

-----------------------------------------------------------------------------
(* HwpHwpxLoader: the helpers of lazy_load                                 *)

RuntimeError == Exc("RuntimeError", <<"parse-fail">>)
OSError == Exc("OSError", <<"disk full">>)

\* events: a call made on the collaborator or the file system, and an
\* exception the collaborator answered a call with
Call(name, arg) == <<name, arg>>
Raise(exc) == <<"raises", exc.cls>>

Digits == <<"0", "1", "2", "3", "4", "5", "6", "7", "8", "9">>

\* str(n) for a small natural number
StrInt(n) == <<Digits[n + 1]>>

\* f"{n:03d}"
Fmt03(n) == <<"0", "0", Digits[n + 1]>>

\* _safe_int: None stays None, a number is kept
_safe_int(value) == value

_normalize_file_type(value, file_path) ==
    LET candidates == (IF value # None THEN <<value>> ELSE <<>>)
                      \o <<SubSeq(PathSuffix(file_path), 2, Len(PathSuffix(file_path)))>>
        hwpx == <<"h", "w", "p", "x">>
        hwp == <<"h", "w", "p">>
        Known(t) == \/ Contains(Lower(t), hwpx)
                    \/ Contains(Lower(t), hwp \o <<"5">>)
                    \/ Lower(t) = hwp
                    \/ EndsWith(Lower(t), <<".">> \o hwpx)
                    \/ EndsWith(Lower(t), <<".">> \o hwp)
        Token(t) == IF Contains(Lower(t), hwpx) THEN hwpx
                    ELSE IF Contains(Lower(t), hwp \o <<"5">>) \/ Lower(t) = hwp THEN hwp
                    ELSE IF EndsWith(Lower(t), <<".">> \o hwpx) THEN hwpx
                    ELSE hwp
        I == {i \in 1..Len(candidates) : Known(candidates[i])}
    IN  IF I # {} THEN Token(candidates[CHOOSE i \in I : \A j \in I : i <= j])
        ELSE Lower(candidates[Len(candidates)])

\* _normalize_hyperlink on a (text, url) tuple
_normalize_hyperlink(hyperlink) ==
    [text |-> Strip(hyperlink.text), url |-> Strip(hyperlink.url)]

\* _build_common_metadata, lines 203-213
_build_common_metadata(slf, file_path, rdr) ==
    LET metadata == [source |-> file_path,
                     file_name |-> PathName(file_path),
                     file_type |-> _normalize_file_type(rdr.file_type, file_path),
                     loader |-> <<"langchain_hwp_hwpx/", "__version__">>,
                     parser |-> <<"hwp-hwpx-parser/", "unknown">>]
        stamped == IF slf.include_extracted_at
                   THEN DictSet(metadata, "extracted_at", <<"utc-now">>)
                   ELSE metadata
    IN  DictUpdate(stamped, slf.extra_metadata)

\* a step's outcome: the exception it raised (NoExc: none) and what it returns
Raises(exc) == [exc |-> exc, doc |-> None]
Returns(doc) == [exc |-> NoExc, doc |-> doc]

Document(page_content, metadata) ==
    [page_content |-> page_content, metadata |-> metadata]

\* faulty variant: the placeholder's status and element type are set before the
\* base metadata (and so the user's overlay) is applied
_resolve_status_policy_OverlayWins(policy, status, file_path, base_md) ==
    IF policy = "raise"
    THEN Raises(HwpHwpxLoaderError(
             <<"Document skipped because it is ", status, ": ">> \o file_path))
    ELSE IF policy = "skip" THEN Raises(_SkipFile)
    ELSE Returns(<<Document(
             <<"[">> \o Upper(<<status>>) \o <<"] ">> \o PathName(file_path)
                 \o <<" cannot be parsed by policy.">>,
             DictUpdate([status |-> status, element_type |-> "placeholder"], base_md))>>)

\* _resolve_status_policy, lines 241-252
_resolve_status_policy(policy, status, file_path, base_md) ==
    LET message == <<"Document skipped because it is ", status, ": ">> \o file_path
        placeholder_metadata ==
            DictSet(DictSet(base_md, "status", status), "element_type", "placeholder")
    IN  IF policy = "raise" THEN Raises(HwpHwpxLoaderError(message))
        ELSE IF policy = "skip" THEN Raises(_SkipFile)
        ELSE Returns(<<Document(
                 <<"[">> \o Upper(<<status>>) \o <<"] ">> \o PathName(file_path)
                     \o <<" cannot be parsed by policy.">>,
                 placeholder_metadata)>>)

\* faulty variant: the invalid check comes before the encrypted check
_handle_file_status_InvalidFirst(slf, rdr, base_md) ==
    IF ~rdr.is_valid
    THEN _resolve_status_policy(slf.on_invalid, "invalid", slf.file_path, base_md)
    ELSE IF rdr.is_encrypted
    THEN _resolve_status_policy(slf.on_encrypted, "encrypted", slf.file_path, base_md)
    ELSE Returns(None)

\* _handle_file_status, lines 216-232
_handle_file_status(slf, rdr, base_md) ==
    IF rdr.is_encrypted
    THEN _resolve_status_policy(slf.on_encrypted, "encrypted", slf.file_path, base_md)
    ELSE IF ~rdr.is_valid
    THEN _resolve_status_policy(slf.on_invalid, "invalid", slf.file_path, base_md)
    ELSE Returns(None)

\* what a handler leaves behind: the exception that goes on (NoExc: the
\* generator just ends) and the warnings it logged
Handled(exc, warnings) == [exc |-> exc, log |-> warnings]

\* faulty variant: every policy but 'warn' raises
_handle_runtime_error_SkipRaises(slf, file_path, exc) ==
    IF slf.on_error = "warn"
    THEN Handled(NoExc, <<(<<"Failed to parse ">> \o file_path \o <<": ", exc.cls>>
                          \o <<" (">> \o exc.msg \o <<")">>)>>)
    ELSE Handled(ExcFrom("HwpHwpxLoaderError",
                         <<"Failed to parse ">> \o file_path \o <<": ", exc.cls>>, exc),
                 <<>>)

\* _handle_runtime_error, lines 255-261
_handle_runtime_error(slf, file_path, exc) ==
    LET message == <<"Failed to parse ">> \o file_path \o <<": ", exc.cls>>
    IN  IF slf.on_error = "raise"
        THEN IF exc.cls = "HwpHwpxLoaderError"
             THEN Handled(exc, <<>>)
             ELSE Handled(ExcFrom("HwpHwpxLoaderError", message, exc), <<>>)
        ELSE IF slf.on_error = "warn"
        THEN Handled(NoExc, <<message \o <<" (">> \o exc.msg \o <<")">> >>)
        ELSE Handled(NoExc, <<>>)

\* the body of _handle_runtime_error, for the faulty variants below
RuntimeErrorPolicy(slf, file_path, exc) ==
    IF slf.on_error = "raise"
    THEN Handled(ExcFrom("HwpHwpxLoaderError",
                         <<"Failed to parse ">> \o file_path \o <<": ", exc.cls>>, exc),
                 <<>>)
    ELSE IF slf.on_error = "warn"
    THEN Handled(NoExc, <<(<<"Failed to parse ">> \o file_path \o <<": ", exc.cls>>
                          \o <<" (">> \o exc.msg \o <<")">>)>>)
    ELSE Handled(NoExc, <<>>)

\* faulty variant: lazy_load without its `except _SkipFile` clause
LazyLoadExcept_NoSkipClause(slf, exc) ==
    IF exc.cls = "HwpHwpxLoaderError" THEN Handled(exc, <<>>)
    ELSE RuntimeErrorPolicy(slf, slf.file_path, exc)

\* faulty variant: lazy_load without its `except HwpHwpxLoaderError` clause, so that
\* on_error decides about a structured error too
LazyLoadExcept_NoStructuredClause(slf, exc) ==
    IF exc.cls = "_SkipFile" THEN Handled(NoExc, <<>>)
    ELSE IF exc.cls = "HwpHwpxLoaderError" /\ slf.on_error = "raise" THEN Handled(exc, <<>>)
    ELSE RuntimeErrorPolicy(slf, slf.file_path, exc)

\* lazy_load, lines 185-191: the except clauses of the try block
LazyLoadExcept(slf, exc) ==
    IF exc.cls = "_SkipFile" THEN Handled(NoExc, <<>>)
    ELSE IF exc.cls = "HwpHwpxLoaderError" THEN Handled(exc, <<>>)
    ELSE _handle_runtime_error(slf, slf.file_path, exc)

\* faulty variant: the directory loader gives up on every policy but 'warn'
DirExcept_SkipAborts(dslf, file_path, exc) ==
    IF dslf.on_error = "warn"
    THEN [exc |-> NoExc,
          log |-> <<(<<"Failed to load file ">> \o file_path \o <<": ", exc.cls>>
                     \o <<" (">> \o exc.msg \o <<")">>)>>,
          go_on |-> TRUE]
    ELSE [exc |-> ExcFrom("HwpHwpxLoaderError",
                          <<"Failed to load file ">> \o file_path \o <<": ", exc.cls>>,
                          exc),
          log |-> <<>>, go_on |-> FALSE]

\* HwpHwpxDirectoryLoader.lazy_load, lines 573-578: the except clause of the
\* for loop's body; go_on says whether the loop goes on to the next file
DirExcept(dslf, file_path, exc) ==
    LET message == <<"Failed to load file ">> \o file_path \o <<": ", exc.cls>>
    IN  IF dslf.on_error = "raise"
        THEN [exc |-> ExcFrom("HwpHwpxLoaderError", message, exc), log |-> <<>>,
              go_on |-> FALSE]
        ELSE IF dslf.on_error = "warn"
        THEN [exc |-> NoExc, log |-> <<message \o <<" (">> \o exc.msg \o <<")">> >>,
              go_on |-> TRUE]
        ELSE [exc |-> NoExc, log |-> <<>>, go_on |-> TRUE]

-----------------------------------------------------------------------------
(* HwpHwpxLoader: collecting and rendering.  extract_options is None.      *)

Failed(o) == o.exc.cls # "None"

\* _extract_body_text, lines 401-404
_extract_body_text(rdr, res) ==
    IF Strip(res.text) # <<>> THEN Strip(res.text) ELSE Strip(rdr.text)

\* faulty variant: the tables come from the structured result alone
_collect_tables_ResultOnly(rdr, res) ==
    IF res.tables # None THEN res.tables[1] ELSE <<>>

\* _collect_tables, lines 407-411
_collect_tables(rdr, res) ==
    IF res.tables # None THEN res.tables[1]
    ELSE IF rdr.get_tables # None THEN rdr.get_tables[1]
    ELSE <<>>

\* _collect_notes / _collect_memos / _collect_hyperlinks, lines 413-426
_collect_notes(res) == IF res.notes # None THEN res.notes[1] ELSE <<>>
_collect_memos(res) == IF res.memos # None THEN res.memos[1] ELSE <<>>
_collect_hyperlinks(res) == IF res.hyperlinks # None THEN res.hyperlinks[1] ELSE <<>>

\* _collect_images, lines 429-431
_collect_images(rdr) == IF rdr.get_images # None THEN rdr.get_images[1] ELSE <<>>

\* _element_metadata, lines 395-398
_element_metadata(base_md, element_type, element_index) ==
    DictSet(DictSet(base_md, "element_type", element_type),
            "element_index", element_index)

\* _render_table, lines 444-459, with no extract_options: style_name is ""
_render_table(slf, table) ==
    IF table.raises THEN [exc |-> RuntimeError, text |-> <<>>]
    ELSE IF table.to_markdown # None
    THEN [exc |-> NoExc, text |-> Strip(table.to_markdown[1])]
    ELSE [exc |-> NoExc, text |-> Strip(table.rows)]

\* _render_tables_for_single, lines 434-441
_render_tables_for_single(slf, rdr, res) ==
    LET tables == _collect_tables(rdr, res)
        rendered == [i \in 1..Len(tables) |-> _render_table(slf, tables[i])]
        bad == {i \in 1..Len(tables) : Failed(rendered[i])}
        first == CHOOSE i \in bad : \A j \in bad : i <= j
    IN  IF tables = <<>> THEN [exc |-> NoExc, text |-> <<>>, events |-> <<>>]
        ELSE IF bad # {}
        THEN [exc |-> rendered[first].exc, text |-> <<>>,
              events |-> [i \in 1..first |-> Call("render_table", i)]
                         \o <<Raise(rendered[first].exc)>>]
        ELSE [exc |-> NoExc,
              text |-> <<"## Tables", "\n">>
                       \o Join([i \in 1..Len(tables) |-> rendered[i].text], <<"\n\n">>),
              events |-> [i \in 1..Len(tables) |-> Call("render_table", i)]]

\* the note's kind as lines 340 and 467 compute it
NoteType(note) == Lower(note.note_type)

\* _render_notes_for_single, lines 462-472
_render_notes_for_single(res) ==
    LET notes == _collect_notes(res)
        Marker(note) ==
            IF _safe_int(note.number) # None
            THEN <<"[">> \o NoteType(note) \o <<":">> \o _safe_int(note.number) \o <<"]">>
            ELSE <<"[">> \o NoteType(note) \o <<"]">>
        Line(note) == Strip(Marker(note) \o <<" ">> \o Strip(note.text))
    IN  IF notes = <<>> THEN <<>>
        ELSE Join(<<(<<"## Notes">>)>> \o [i \in 1..Len(notes) |-> Line(notes[i])],
                  <<"\n">>)

\* _render_memos_for_single, lines 475-486
_render_memos_for_single(res) ==
    LET memos == _collect_memos(res)
        Label(idx, memo) ==
            IF Strip(memo.author) # <<>>
            THEN <<"[memo:">> \o StrInt(idx) \o <<"]", " (">> \o Strip(memo.author) \o <<")">>
            ELSE <<"[memo:">> \o StrInt(idx) \o <<"]">>
        Line(idx, memo) == Strip(Label(idx, memo) \o <<" ">> \o Strip(memo.text))
    IN  IF memos = <<>> THEN <<>>
        ELSE Join(<<(<<"## Memos">>)>> \o [i \in 1..Len(memos) |-> Line(i, memos[i])],
                  <<"\n">>)

\* _render_hyperlinks_for_single, lines 489-501: the lines after the heading
RECURSIVE HyperlinkLines(_)
HyperlinkLines(links) ==
    IF links = <<>> THEN <<>>
    ELSE LET n == _normalize_hyperlink(links[1])
             line == IF n.text # <<>> /\ n.url # <<>>
                     THEN << <<"- ">> \o n.text \o <<": ">> \o n.url >>
                     ELSE IF n.url # <<>> THEN << <<"- ">> \o n.url >>
                     ELSE IF n.text # <<>> THEN << <<"- ">> \o n.text >>
                     ELSE <<>>
         IN  line \o HyperlinkLines(Tail(links))

_render_hyperlinks_for_single(res) ==
    LET links == _collect_hyperlinks(res)
    IN  IF links = <<>> THEN <<>>
        ELSE Join(<<(<<"## Hyperlinks">>)>> \o HyperlinkLines(links), <<"\n">>)

\* _materialize_image, lines 521-524: the format and the resolved name
ImageFormat(image) ==
    IF Lower(Strip(image.format)) # <<>> THEN Lower(Strip(image.format)) ELSE <<"bin">>

ResolvedName(image, image_index, fmt) ==
    IF Strip(image.filename) # <<>> THEN Strip(image.filename)
    ELSE <<"image_">> \o Fmt03(image_index) \o <<".">> \o fmt

\* lines 531-533
OutputPath(joined, fmt) ==
    IF PathSuffix(joined) = <<>> THEN joined \o <<".">> \o fmt ELSE joined

\* lines 529-539, with the metadata of lines 526-527 in md
MaterializeAt(slf, image, md, resolved_name, output_path, described) ==
    IF slf.image_document_mode = "save_and_reference" /\ slf.images_dir # None
    THEN IF image.has_save
         THEN IF image.save_fails
              THEN [exc |-> OSError, content |-> <<>>, metadata |-> md,
                    events |-> <<Call("mkdir", slf.images_dir), Call("save", output_path),
                                 Raise(OSError)>>]
              ELSE [exc |-> NoExc,
                    content |-> resolved_name \o <<" -> ">> \o output_path,
                    metadata |-> DictSet(md, "saved_path", output_path),
                    events |-> <<Call("mkdir", slf.images_dir), Call("save", output_path)>>]
         ELSE [exc |-> NoExc, content |-> described, metadata |-> md,
               events |-> <<Call("mkdir", slf.images_dir)>>]
    ELSE [exc |-> NoExc, content |-> described, metadata |-> md, events |-> <<>>]

MaterializeNamed(slf, file_path, image, metadata, fmt, resolved_name) ==
    MaterializeAt(slf, image,
        DictSet(DictSet(metadata, "filename", resolved_name), "image_format", fmt),
        resolved_name,
        OutputPath(slf.images_dir \o <<"/">> \o resolved_name, fmt),
        resolved_name \o <<" (">> \o fmt \o <<") from ">> \o PathName(file_path))

MaterializeFormat(slf, file_path, image_index, image, metadata, fmt) ==
    MaterializeNamed(slf, file_path, image, metadata, fmt,
                     ResolvedName(image, image_index, fmt))

\* _materialize_image, lines 521-539: the string it returns, the metadata it
\* has filled, the calls it has made on the file system and the image, and
\* the exception image.save raised
_materialize_image(slf, file_path, image_index, image, metadata) ==
    MaterializeFormat(slf, file_path, image_index, image, metadata, ImageFormat(image))

\* one more line of the Images section, and the lines after it
ImageLinesCons(m, rest) ==
    IF Failed(m) THEN [exc |-> m.exc, lines |-> <<>>, events |-> m.events]
    ELSE [exc |-> rest.exc, lines |-> <<m.content>> \o rest.lines,
          events |-> m.events \o rest.events]

\* _render_images_for_single, lines 508-511: the loop from image k on
RECURSIVE ImageLines(_, _, _, _)
ImageLines(slf, file_path, images, k) ==
    IF k > Len(images) THEN [exc |-> NoExc, lines |-> <<>>, events |-> <<>>]
    ELSE ImageLinesCons(_materialize_image(slf, file_path, k - 1, images[k], <<>>),
                        ImageLines(slf, file_path, images, k + 1))

ImagesSection(body) ==
    [exc |-> body.exc,
     text |-> Join(<<(<<"## Images">>)>> \o body.lines, <<"\n">>),
     events |-> body.events]

\* _render_images_for_single, lines 504-512
_render_images_for_single(slf, file_path, rdr) ==
    IF _collect_images(rdr) = <<>> THEN [exc |-> NoExc, text |-> <<>>, events |-> <<>>]
    ELSE ImagesSection(ImageLines(slf, file_path, _collect_images(rdr), 1))

\* the parts of a list that are not empty
RECURSIVE NonEmpty(_)
NonEmpty(parts) ==
    IF parts = <<>> THEN <<>>
    ELSE (IF parts[1] # <<>> THEN <<parts[1]>> ELSE <<>>) \o NonEmpty(Tail(parts))

\* faulty variant: the Memos section comes before the Notes section
AssembleSingle_MemosFirst(body_text, table, note_text, memo_text, hyperlink_text, image, base_md) ==
    IF Failed(table) THEN [exc |-> table.exc, doc |-> None, events |-> table.events]
    ELSE IF Failed(image)
    THEN [exc |-> image.exc, doc |-> None, events |-> table.events \o image.events]
    ELSE [exc |-> NoExc,
          doc |-> <<Document(
                      Strip(Join(NonEmpty(<<body_text, table.text, memo_text, note_text,
                                            hyperlink_text, image.text>>), <<"\n\n">>)),
                      DictSet(base_md, "element_type", "document"))>>,
          events |-> table.events \o image.events]

\* lines 301-304, and the exception raised on the way
AssembleSingle(body_text, table, note_text, memo_text, hyperlink_text, image, base_md) ==
    IF Failed(table) THEN [exc |-> table.exc, doc |-> None, events |-> table.events]
    ELSE IF Failed(image)
    THEN [exc |-> image.exc, doc |-> None, events |-> table.events \o image.events]
    ELSE [exc |-> NoExc,
          doc |-> <<Document(
                      Strip(Join(NonEmpty(<<body_text, table.text, note_text, memo_text,
                                            hyperlink_text, image.text>>), <<"\n\n">>)),
                      DictSet(base_md, "element_type", "document"))>>,
          events |-> table.events \o image.events]

\* _build_single_document, lines 270-304: the document, the exception raised
\* on the way and the calls made up to it
_build_single_document(slf, file_path, rdr, res, base_md) ==
    AssembleSingle(
        _extract_body_text(rdr, res),
        IF slf.include_tables THEN _render_tables_for_single(slf, rdr, res)
        ELSE [exc |-> NoExc, text |-> <<>>, events |-> <<>>],
        IF slf.include_notes THEN _render_notes_for_single(res) ELSE <<>>,
        IF slf.include_memos THEN _render_memos_for_single(res) ELSE <<>>,
        IF slf.include_hyperlinks THEN _render_hyperlinks_for_single(res) ELSE <<>>,
        IF slf.include_images THEN _render_images_for_single(slf, file_path, rdr)
        ELSE [exc |-> NoExc, text |-> <<>>, events |-> <<>>],
        base_md)

-----------------------------------------------------------------------------
(* HwpHwpxLoader.lazy_load as a state machine.  pc is the stage the        *)
(* generator is at; every action runs one stage up to the next yield, the  *)
(* return or the exception, the except clauses included.                   *)

Continue(next) ==
    /\ pc' = next
    /\ UNCHANGED <<raised, log, dpc, fidx>>

\* The generator ends: it returns (h.exc = NoExc) or h.exc leaves it.  Called
\* by itself, the caller gets the exception; under `yield from` in
\* HwpHwpxDirectoryLoader.lazy_load (line 572) the for loop's except clause
\* gets it, and the loop goes on to the next file or ends.
Leave(h) ==
    IF dpc = "in_file"
    THEN LET d == IF Failed(h) THEN DirExcept(dself, files[fidx], h.exc)
                  ELSE [exc |-> NoExc, log |-> <<>>, go_on |-> TRUE]
         IN  /\ pc' = "idle"
             /\ log' = log \o h.log \o d.log
             /\ raised' = d.exc
             /\ dpc' = IF d.go_on THEN "scan" ELSE "raised"
             /\ fidx' = IF d.go_on THEN fidx + 1 ELSE fidx
    ELSE /\ pc' = IF Failed(h) THEN "raised" ELSE "done"
         /\ raised' = h.exc
         /\ log' = log \o h.log
         /\ UNCHANGED <<dpc, fidx>>

\* an exception raised inside the try block of lazy_load
Caught(exc) == Leave(LazyLoadExcept(self, exc))

\* HwpHwpxLoader(...), called by the user or, inside the try block of line
\* 570, by HwpHwpxDirectoryLoader.lazy_load
Construct ==
    /\ pc = "new"
    /\ LET v == InitValidation(args)
       IN  IF v.cls # "None"
           THEN /\ Leave(Handled(v, <<>>))
                /\ self' = NoLoader
           ELSE /\ Continue("lazy_load")
                /\ self' = NewLoader(args)
    /\ UNCHANGED <<fs, args, loaderVars, docs, events, dirVars>>

\* faulty variant: lazy_load looks for the file before it looks at the
\* extension
LazyLoad_ExistsFirst ==
    /\ pc = "lazy_load"
    /\ LET file_path == self.file_path
       IN  /\ events' = Append(events, Call("exists", file_path))
           /\ IF ~PathExists(file_path)
              THEN Leave(Handled(Exc("FileNotFoundError",
                             <<"File not found: ">> \o file_path), <<>>))
              ELSE IF Lower(PathSuffix(file_path)) \notin _SUPPORTED_EXTENSIONS
              THEN Leave(Handled(Exc("ValueError",
                             <<"Unsupported extension for ">> \o file_path), <<>>))
              ELSE Continue("create_reader")
    /\ UNCHANGED <<fs, args, self, loaderVars, docs, dirVars>>

\* lazy_load, lines 165-169: the preconditions, outside the try block
LazyLoad ==
    /\ pc = "lazy_load"
    /\ LET file_path == self.file_path
       IN  IF Lower(PathSuffix(file_path)) \notin _SUPPORTED_EXTENSIONS
           THEN /\ Leave(Handled(Exc("ValueError",
                            <<"Unsupported extension for ">> \o file_path), <<>>))
                /\ events' = events
           ELSE /\ events' = Append(events, Call("exists", file_path))
                /\ IF ~PathExists(file_path)
                   THEN Leave(Handled(Exc("FileNotFoundError",
                                  <<"File not found: ">> \o file_path), <<>>))
                   ELSE Continue("create_reader")
    /\ UNCHANGED <<fs, args, self, loaderVars, docs, dirVars>>

\* line 172, _create_reader
CreateReader ==
    /\ pc = "create_reader"
    /\ IF fs[self.file_path].parse.fail_at = "reader"
       THEN /\ Caught(RuntimeError)
            /\ reader' = reader
            /\ events' = events \o <<Call("Reader", self.file_path), Raise(RuntimeError)>>
       ELSE /\ Continue("metadata")
            /\ reader' = fs[self.file_path].parse
            /\ events' = Append(events, Call("Reader", self.file_path))
    /\ UNCHANGED <<fs, args, self, base_metadata, result, index, pos, docs, dirVars>>

\* line 173
BuildCommonMetadata ==
    /\ pc = "metadata"
    /\ IF reader.fail_at = "metadata"
       THEN /\ Caught(RuntimeError)
            /\ base_metadata' = base_metadata
            /\ events' = Append(events, Raise(RuntimeError))
       ELSE /\ Continue("status")
            /\ base_metadata' = _build_common_metadata(self, self.file_path, reader)
            /\ events' = events
    /\ UNCHANGED <<fs, args, self, reader, result, index, pos, docs, dirVars>>

\* lines 174-176: the status gate, up to the yield of the placeholder
HandleFileStatus ==
    /\ pc = "status"
    /\ LET o == _handle_file_status(self, reader, base_metadata)
       IN  IF Failed(o) THEN Caught(o.exc) /\ docs' = docs
           ELSE IF o.doc # None
           THEN Continue("return") /\ docs' = Append(docs, o.doc[1])
           ELSE Continue("extract") /\ docs' = docs
    /\ UNCHANGED <<fs, args, self, loaderVars, events, dirVars>>

\* lines 177 and 182: the return after the yield of the only document
Return ==
    /\ pc = "return"
    /\ Leave(Handled(NoExc, <<>>))
    /\ UNCHANGED <<fs, args, self, loaderVars, docs, events, dirVars>>

\* lines 179-180, _extract_result
ExtractResult ==
    /\ pc = "extract"
    /\ IF reader.fail_at = "extract"
       THEN /\ Caught(RuntimeError)
            /\ result' = result
            /\ events' = events \o <<Call("extract_text_with_notes", self.file_path),
                                      Raise(RuntimeError)>>
       ELSE /\ Continue(IF self.mode = "single" THEN "single" ELSE "body")
            /\ result' = reader.result
            /\ events' = Append(events, Call("extract_text_with_notes", self.file_path))
    /\ UNCHANGED <<fs, args, self, reader, base_metadata, index, pos, docs, dirVars>>

\* line 181: single mode, up to the yield
BuildSingleDocument ==
    /\ pc = "single"
    /\ LET o == _build_single_document(self, self.file_path, reader, result,
                                       base_metadata)
       IN  /\ events' = events \o o.events
           /\ IF Failed(o) THEN Caught(o.exc) /\ docs' = docs
              ELSE Continue("return") /\ docs' = Append(docs, o.doc[1])
    /\ UNCHANGED <<fs, args, self, loaderVars, dirVars>>

-----------------------------------------------------------------------------
(* _build_element_documents, lines 313-387: one action per yield (one       *)
(* iteration of the running for loop), or the step on to the next loop.    *)

\* lines 313-321
ElementBody ==
    /\ pc = "body"
    /\ LET body_text == _extract_body_text(reader, result)
       IN  IF body_text # <<>>
           THEN /\ docs' = Append(docs, Document(body_text,
                               _element_metadata(base_metadata, "body", 0)))
                /\ index' = 1
           ELSE docs' = docs /\ index' = 0
    /\ pos' = 1
    /\ Continue("tables")
    /\ UNCHANGED <<fs, args, self, reader, base_metadata, result, events, dirVars>>

\* lines 325-331: the metadata of a table element
TableMetadata(base_md, table, element_index) ==
    LET md == _element_metadata(base_md, "table", element_index)
        rows == IF _safe_int(table.row_count) # None
                THEN DictSet(md, "row_count", table.row_count[1]) ELSE md
    IN  IF _safe_int(table.col_count) # None
        THEN DictSet(rows, "col_count", table.col_count[1]) ELSE rows

\* lines 323-336
ElementTable ==
    /\ pc = "tables"
    /\ LET tables == _collect_tables(reader, result)
       IN  IF ~self.include_tables \/ pos > Len(tables)
           THEN Continue("notes") /\ pos' = 1 /\ UNCHANGED <<docs, index, events>>
           ELSE LET r == _render_table(self, tables[pos])
                IN  IF Failed(r)
                    THEN /\ Caught(r.exc)
                         /\ events' = events \o <<Call("render_table", pos), Raise(r.exc)>>
                         /\ UNCHANGED <<docs, index, pos>>
                    ELSE /\ docs' = Append(docs, Document(r.text,
                                        TableMetadata(base_metadata, tables[pos], index)))
                         /\ index' = index + 1
                         /\ pos' = pos + 1
                         /\ events' = Append(events, Call("render_table", pos))
                         /\ Continue("tables")
    /\ UNCHANGED <<fs, args, self, reader, base_metadata, result, dirVars>>

\* lines 340-346: the metadata of a note element
NoteMetadata(base_md, note, element_index) ==
    LET note_type == NoteType(note)
        element_type == IF note_type = <<"endnote">> THEN "endnote" ELSE "footnote"
        md == DictSet(_element_metadata(base_md, element_type, element_index),
                      "note_type", note_type)
    IN  IF _safe_int(note.number) # None
        THEN DictSet(md, "note_number", note.number[1]) ELSE md

\* faulty variant: the note loop counts its own elements from 0
ElementNote_IndexReset ==
    /\ pc = "notes"
    /\ LET notes == _collect_notes(result)
       IN  IF ~self.include_notes \/ pos > Len(notes)
           THEN Continue("memos") /\ pos' = 1 /\ UNCHANGED <<docs, index>>
           ELSE /\ docs' = Append(docs, Document(Strip(notes[pos].text),
                               NoteMetadata(base_metadata, notes[pos], pos - 1)))
                /\ index' = index + 1
                /\ pos' = pos + 1
                /\ Continue("notes")
    /\ UNCHANGED <<fs, args, self, reader, base_metadata, result, events, dirVars>>

\* lines 338-351
ElementNote ==
    /\ pc = "notes"
    /\ LET notes == _collect_notes(result)
       IN  IF ~self.include_notes \/ pos > Len(notes)
           THEN Continue("memos") /\ pos' = 1 /\ UNCHANGED <<docs, index>>
           ELSE /\ docs' = Append(docs, Document(Strip(notes[pos].text),
                               NoteMetadata(base_metadata, notes[pos], index)))
                /\ index' = index + 1
                /\ pos' = pos + 1
                /\ Continue("notes")
    /\ UNCHANGED <<fs, args, self, reader, base_metadata, result, events, dirVars>>

MemoKeys == {"id", "memo_id", "author", "referenced_text"}

\* lines 355-359: the metadata of a memo element
MemoMetadata(base_md, memo, element_index) ==
    DictUpdate(_element_metadata(base_md, "memo", element_index),
               [k \in {x \in MemoKeys : memo[x] # <<>>} |-> memo[k]])

\* lines 353-364
ElementMemo ==
    /\ pc = "memos"
    /\ LET memos == _collect_memos(result)
       IN  IF ~self.include_memos \/ pos > Len(memos)
           THEN Continue("hyperlinks") /\ pos' = 1 /\ UNCHANGED <<docs, index>>
           ELSE /\ docs' = Append(docs, Document(Strip(memos[pos].text),
                               MemoMetadata(base_metadata, memos[pos], index)))
                /\ index' = index + 1
                /\ pos' = pos + 1
                /\ Continue("memos")
    /\ UNCHANGED <<fs, args, self, reader, base_metadata, result, events, dirVars>>

\* lines 368-377: one iteration of the hyperlink loop: the documents it
\* yields (none when it continues) 
HyperlinkElement(base_md, hyperlink, element_index) ==
    LET md == _element_metadata(base_md, "hyperlink", element_index)
        n == _normalize_hyperlink(hyperlink)
        with_url == IF n.url # <<>> THEN DictSet(md, "url", n.url) ELSE md
        with_text == IF n.text # <<>> THEN DictSet(with_url, "text", n.text)
                     ELSE with_url
    IN  IF n.text = <<>> /\ n.url = <<>> THEN <<>>
        ELSE <<Document(IF n.text # <<>> THEN n.text ELSE n.url, with_text)>>

\* faulty variant: the hyperlink loop advances the index on every record
ElementHyperlink_SkipAdvances ==
    /\ pc = "hyperlinks"
    /\ LET links == _collect_hyperlinks(result)
       IN  IF ~self.include_hyperlinks \/ pos > Len(links)
           THEN Continue("images") /\ pos' = 1 /\ UNCHANGED <<docs, index>>
           ELSE LET d == HyperlinkElement(base_metadata, links[pos], index)
                IN  /\ docs' = docs \o d
                    /\ index' = index + 1
                    /\ pos' = pos + 1
                    /\ Continue("hyperlinks")
    /\ UNCHANGED <<fs, args, self, reader, base_metadata, result, events, dirVars>>

\* lines 366-378
ElementHyperlink ==
    /\ pc = "hyperlinks"
    /\ LET links == _collect_hyperlinks(result)
       IN  IF ~self.include_hyperlinks \/ pos > Len(links)
           THEN Continue("images") /\ pos' = 1 /\ UNCHANGED <<docs, index>>
           ELSE LET d == HyperlinkElement(base_metadata, links[pos], index)
                IN  /\ docs' = docs \o d
                    /\ index' = index + Len(d)
                    /\ pos' = pos + 1
                    /\ Continue("hyperlinks")
    /\ UNCHANGED <<fs, args, self, reader, base_metadata, result, events, dirVars>>

\* lines 380-387, and the end of the generator
ElementImage ==
    /\ pc = "images"
    /\ LET images == _collect_images(reader)
       IN  IF ~self.include_images \/ pos > Len(images)
           THEN Leave(Handled(NoExc, <<>>)) /\ UNCHANGED <<docs, index, pos, events>>
           ELSE LET m == _materialize_image(self, self.file_path, pos - 1, images[pos],
                             _element_metadata(base_metadata, "image", index))
                IN  /\ events' = events \o m.events
                    /\ IF Failed(m) THEN Caught(m.exc) /\ UNCHANGED <<docs, index, pos>>
                       ELSE /\ docs' = Append(docs, Document(m.content, m.metadata))
                            /\ index' = index + 1
                            /\ pos' = pos + 1
                            /\ Continue("images")
    /\ UNCHANGED <<fs, args, self, reader, base_metadata, result, dirVars>>

Elements ==
    \/ ElementBody
    \/ ElementTable
    \/ ElementNote
    \/ ElementMemo
    \/ ElementHyperlink
    \/ ElementImage

\* the steps of one HwpHwpxLoader.lazy_load generator
Generator ==
    \/ LazyLoad
    \/ CreateReader
    \/ BuildCommonMetadata
    \/ HandleFileStatus
    \/ Return
    \/ ExtractResult
    \/ BuildSingleDocument
    \/ Elements

Next == Construct \/ Generator

-----------------------------------------------------------------------------
(* HwpHwpxDirectoryLoader.  dpc is the position of its lazy_load: "new",    *)
(* "lazy_load", "scan" (the head of the for loop), "in_file" (inside the   *)
(* try block, where the HwpHwpxLoader actions run), "done", "raised".      *)

\* _normalize_extension, lines 596-602
_normalize_extension(extension) ==
    LET ext == Lower(Strip(extension))
    IN  IF ext = <<>>
        THEN [exc |-> Exc("ValueError", <<"extensions must not contain empty values">>),
              value |-> None]
        ELSE IF ~StartsWith(ext, <<".">>)
        THEN [exc |-> NoExc, value |-> <<".">> \o ext]
        ELSE [exc |-> NoExc, value |-> ext]

\* self.loader_kwargs.get("on_error", "raise"), line 558
KwargsOnError(loader_kwargs) ==
    IF "on_error" \in DOMAIN loader_kwargs THEN loader_kwargs["on_error"] ELSE "raise"

\* HwpHwpxDirectoryLoader.__init__, lines 554-561: the exception it raises
DirInitValidation(a) ==
    FirstExc([i \in 1..Len(a.extensions) |-> _normalize_extension(a.extensions[i]).exc]
             \o <<_validate_literal(KwargsOnError(a.loader_kwargs), "on_error",
                                    _VALID_ERROR_POLICIES)>>)

\* HwpHwpxDirectoryLoader.__init__, lines 554-561: the fields
NewDirectoryLoader(a) ==
    [dir_path |-> a.dir_path, glob |-> a.glob, recursive |-> a.recursive,
     extensions |-> [i \in 1..Len(a.extensions) |->
                        _normalize_extension(a.extensions[i]).value],
     loader_kwargs |-> DictSet(a.loader_kwargs, "on_error",
                               KwargsOnError(a.loader_kwargs)),
     on_error |-> KwargsOnError(a.loader_kwargs)]

\* HwpHwpxDirectoryLoader(...), called by the user
DirConstruct ==
    /\ dpc = "new"
    /\ LET v == DirInitValidation(dargs)
       IN  IF v.cls # "None"
           THEN dpc' = "raised" /\ raised' = v /\ dself' = dself
           ELSE dpc' = "lazy_load" /\ raised' = raised /\ dself' = NewDirectoryLoader(dargs)
    /\ UNCHANGED <<fs, args, self, pc, loaderVars, docs, log, events, dargs, globbed,
                   files, fidx>>

\* _collect_files, lines 581-586: the pattern handed to Path.glob
GlobPattern(dslf) ==
    IF dslf.recursive THEN dslf.glob
    ELSE Replace(Replace(dslf.glob, <<"*", "*", "/">>, <<>>), <<"*", "*">>, <<"*">>)

\* faulty variant: the file list in the order of enumeration
sorted_Unsorted(items) == items

\* sorted(files, key=lambda item: str(item)), line 593: x goes in behind the
\* elements of the sorted rest that are smaller
InsertSorted(x, rest) ==
    LET n == Cardinality({i \in 1..Len(rest) : LtStr(rest[i], x)})
    IN  SubSeq(rest, 1, n) \o <<x>> \o SubSeq(rest, n + 1, Len(rest))

RECURSIVE SortedTail(_)
SortedTail(items) ==
    IF items = <<>> THEN <<>> ELSE InsertSorted(items[1], SortedTail(Tail(items)))

sorted(items) == SortedTail(items)

\* _collect_files, lines 588-593, over the enumeration of the candidates
_collect_files(dslf, candidates) ==
    sorted(SelectSeq(candidates,
                     LAMBDA path : /\ PathIsFile(path)
                                   /\ Lower(PathSuffix(path)) \in Range(dslf.extensions)))

\* lazy_load, lines 564-569: the preconditions and the file list
DirLazyLoad ==
    /\ dpc = "lazy_load"
    /\ IF ~PathExists(dself.dir_path)
       THEN /\ dpc' = "raised"
            /\ raised' = Exc("FileNotFoundError",
                             <<"Directory not found: ">> \o dself.dir_path)
            /\ UNCHANGED <<globbed, files, fidx, events>>
       ELSE IF ~PathIsDir(dself.dir_path)
       THEN /\ dpc' = "raised"
            /\ raised' = Exc("NotADirectoryError",
                             <<"Expected directory path: ">> \o dself.dir_path)
            /\ UNCHANGED <<globbed, files, fidx, events>>
       ELSE /\ \E candidates \in Perms(Glob(dself.dir_path, GlobPattern(dself))) :
                 /\ globbed' = candidates
                 /\ files' = _collect_files(dself, candidates)
            /\ events' = Append(events, Call("glob", GlobPattern(dself)))
            /\ fidx' = 1
            /\ dpc' = "scan"
            /\ raised' = raised
    /\ UNCHANGED <<fs, args, self, pc, loaderVars, docs, log, dargs, dself>>

\* lines 569-571: the head of the for loop; the next file's
\* HwpHwpxLoader(file_path=file_path, **self.loader_kwargs) is about to be
\* called inside the try block, or the loop and the generator end
DirNextFile ==
    /\ dpc = "scan"
    /\ IF fidx > Len(files)
       THEN /\ dpc' = "done"
            /\ UNCHANGED <<args, pc>>
       ELSE /\ dpc' = "in_file"
            /\ args' = DictSet(dself.loader_kwargs, "file_path", files[fidx])
            /\ pc' = "new"
    /\ reader' = None /\ base_metadata' = None /\ result' = None
    /\ index' = 0 /\ pos' = 0
    /\ UNCHANGED <<fs, self, docs, raised, log, events, dirVars, fidx>>

DirGenerator ==
    \/ DirConstruct
    \/ DirLazyLoad
    \/ DirNextFile

DirNext == DirGenerator \/ Construct \/ Generator

-----------------------------------------------------------------------------
(* The environment: paths, and what the parser library answers.            *)

a_hwp == <<"a", ".", "h", "w", "p">>
u_HWPX == <<"u", ".", "H", "W", "P", "X">>
n_txt == <<"n", ".", "t", "x", "t">>
out_dir == <<"o", "u", "t">>

TableA == [row_count |-> <<2>>, col_count |-> None, to_markdown |-> <<(<<"|A|B|", "\n">>)>>,
           rows |-> <<"[['A', 'B']]">>, raises |-> FALSE]
TableBad == [TableA EXCEPT !.raises = TRUE]

Footnote == [note_type |-> <<"footnote">>, number |-> <<"1">>, text |-> <<"fn">>]
Endnote == [note_type |-> <<"Endnote">>, number |-> None, text |-> <<"en", " ">>]

MemoA == [id |-> <<"m1">>, memo_id |-> None, author |-> <<"tester">>,
          referenced_text |-> None, text |-> <<"memo">>]

LinkBoth == [text |-> <<"site">>, url |-> <<"https://example.com">>]
LinkUrl == [text |-> <<" ">>, url |-> <<" ", "https://example.org">>]
LinkText == [text |-> <<"anchor">>, url |-> None]
LinkEmpty == [text |-> <<" ">>, url |-> None]

ImageA == [filename |-> <<"diagram", ".", "png">>, format |-> <<"PNG">>,
           has_save |-> TRUE, save_fails |-> FALSE]
ImageBad == [filename |-> <<"broken", ".", "png">>, format |-> <<"png">>,
             has_save |-> TRUE, save_fails |-> TRUE]
ImageNoSave == [filename |-> None, format |-> None, has_save |-> FALSE,
                save_fails |-> FALSE]

\* all sequences over S of length at most n
SeqsUpTo(S, n) == UNION {[1..k -> S] : k \in 0..n}

\* a reader and its extraction result
Parse(fail_at, is_encrypted, is_valid, body, tables, notes, memos, hyperlinks, images) ==
    [fail_at |-> fail_at, file_type |-> <<"H", "W", "P", "5">>,
     is_encrypted |-> is_encrypted, is_valid |-> is_valid,
     text |-> <<"reader text">>,
     result |-> [text |-> body, tables |-> None, notes |-> <<notes>>,
                 memos |-> <<memos>>, hyperlinks |-> <<hyperlinks>>],
     get_tables |-> <<tables>>, get_images |-> <<images>>]

File(parse) == [kind |-> "file", parse |-> parse]
Missing == [kind |-> "missing"]
Directory == [kind |-> "dir"]

\* the places where the environment can make the run fail
Hazards == {"none", "reader", "metadata", "extract", "table", "image"}

\* the readers of Spec: every status, every hazard, a full and an empty document
PolicyParses ==
    {Parse(IF h \in {"table", "image"} THEN "none" ELSE h, enc, valid,
           IF full THEN <<"body">> ELSE <<" ">>,
           IF ~full THEN <<>> ELSE IF h = "table" THEN <<TableBad>> ELSE <<TableA>>,
           IF full THEN <<Footnote, Endnote>> ELSE <<>>,
           IF full THEN <<MemoA>> ELSE <<>>,
           IF full THEN <<LinkEmpty, LinkBoth>> ELSE <<>>,
           IF ~full THEN <<>> ELSE IF h = "image" THEN <<ImageA, ImageBad>> ELSE <<ImageA>>)
        : h \in Hazards, enc \in BOOLEAN, valid \in BOOLEAN, full \in BOOLEAN}

PolicyWorlds ==
    {[p \in {a_hwp} |-> File(parse)] : parse \in PolicyParses}
    \cup {[p \in {u_HWPX} |-> File(parse)] :
            parse \in {q \in PolicyParses : q.fail_at = "none" /\ q.is_valid}}
    \cup {[p \in {a_hwp} |-> Missing]}
    \cup {[p \in {n_txt} |-> File(CHOOSE q \in PolicyParses : TRUE)]}

Overlay == [status |-> "overlay", element_type |-> "overlay", tag |-> "mine"]

\* the calls HwpHwpxLoader(file_path, ...) of Spec: every enumerated
\* argument takes every legal value and an illegal one
PolicyArgs(file_path) ==
    [file_path : {file_path},
     mode : _VALID_MODES \cup {"bogus"},
     include_tables : {TRUE}, include_notes : {TRUE}, include_memos : {TRUE},
     include_hyperlinks : {TRUE}, include_images : {TRUE},
     images_dir : {out_dir},
     image_document_mode : _VALID_IMAGE_DOCUMENT_MODES \cup {"bogus"},
     on_encrypted : _VALID_STATUS_POLICIES \cup {"warn"},
     on_invalid : _VALID_STATUS_POLICIES \cup {"warn"},
     on_error : _VALID_ERROR_POLICIES \cup {"placeholder"},
     extra_metadata : {<<>>, Overlay},
     include_extracted_at : {TRUE}]

\* the state before HwpHwpxLoader(...) is called by the user
InitLoader ==
    /\ self = NoLoader
    /\ pc = "new"
    /\ reader = None /\ base_metadata = None /\ result = None
    /\ index = 0 /\ pos = 0
    /\ docs = <<>> /\ raised = NoExc /\ log = <<>> /\ events = <<>>

NoDirectory ==
    /\ dargs = None /\ dself = None /\ dpc = "none"
    /\ globbed = <<>> /\ files = <<>> /\ fidx = 0

Init ==
    /\ fs \in PolicyWorlds
    /\ args \in PolicyArgs(CHOOSE p \in DOMAIN fs : TRUE)
    /\ InitLoader
    /\ NoDirectory

Spec == Init /\ [][Next]_vars

\* the calls of ElemSpec: legal policies, every setting of the five
\* inclusion flags in both modes
ElemArgs ==
    [file_path : {a_hwp},
     mode : _VALID_MODES,
     include_tables : BOOLEAN, include_notes : BOOLEAN,
     include_memos : BOOLEAN, include_hyperlinks : BOOLEAN,
     include_images : BOOLEAN,
     images_dir : {out_dir},
     image_document_mode : {"save_and_reference"},
     on_encrypted : {"raise"}, on_invalid : {"raise"}, on_error : {"raise"},
     extra_metadata : {Overlay},
     include_extracted_at : {FALSE}]

\* the body text of the result and the text of the reader it falls back to
ElemBodies == {<<(<<"body">>), (<<"reader text">>)>>,
               <<(<<" ">>), (<<"reader text", " ">>)>>,
               <<(<<" ">>), (<<>>)>>}

\* the lists a reader of ElemSpec returns for an element type: every list up
\* to the bound when the type's flag is on, one list when it is off
ElemLists(flag, S, n) ==
    IF flag THEN SeqsUpTo(S, n) ELSE {<<(CHOOSE x \in S : TRUE)>>}

ElemWorld(b, tables, notes, memos, hyperlinks, images) ==
    [p \in {a_hwp} |->
        File([Parse("none", FALSE, TRUE, b[1], tables, notes, memos, hyperlinks,
                    images) EXCEPT !.text = b[2]])]

ElemInit ==
    /\ \E a \in ElemArgs, b \in ElemBodies :
         \E tables \in ElemLists(a.include_tables, {TableA}, MaxItems),
            notes \in ElemLists(a.include_notes, {Footnote, Endnote}, MaxNotes),
            memos \in ElemLists(a.include_memos, {MemoA}, MaxItems),
            hyperlinks \in ElemLists(a.include_hyperlinks,
                                     {LinkBoth, LinkUrl, LinkText, LinkEmpty}, MaxLinks),
            images \in ElemLists(a.include_images, {ImageA, ImageNoSave}, MaxItems) :
              /\ args = a
              /\ fs = ElemWorld(b, tables, notes, memos, hyperlinks, images)
    /\ InitLoader
    /\ NoDirectory

\* HwpHwpxLoader over documents of every shape, with nothing failing
ElemSpec == ElemInit /\ [][Next]_vars

\* the directory tree of DirSpec: the root r with two files of the supported
\* types (one in upper case), an unrelated file, and a directory named like
\* a document with a file in it
root == <<"r">>
r_B_HWP == <<"r", "/", "B", ".", "H", "W", "P">>
r_a_hwpx == <<"r", "/", "a", ".", "h", "w", "p", "x">>
r_n_txt == <<"r", "/", "n", ".", "t", "x", "t">>
r_s_hwp == <<"r", "/", "s", ".", "h", "w", "p">>
r_s_hwp_c_hwp == <<"r", "/", "s", ".", "h", "w", "p", "/", "c", ".", "h", "w", "p">>

\* what the parser answers for a file of the tree: a document that parses,
\* an encrypted one, one whose extraction raises
DirParse(profile) ==
    Parse(IF profile = "broken" THEN "extract" ELSE "none", profile = "encrypted", TRUE,
          <<"body">>, <<TableA>>, <<Footnote>>, <<>>, <<LinkBoth>>, <<>>)

DirTree(pB, pa, pcc) ==
    [p \in {root, r_B_HWP, r_a_hwpx, r_n_txt, r_s_hwp, r_s_hwp_c_hwp} |->
        IF p \in {root, r_s_hwp} THEN Directory
        ELSE IF p = r_B_HWP THEN File(DirParse(pB))
        ELSE IF p = r_a_hwpx THEN File(DirParse(pa))
        ELSE IF p = r_s_hwp_c_hwp THEN File(DirParse(pcc))
        ELSE File(DirParse("ok"))]

\* the trees with at most one file that does not parse
DirTrees ==
    {DirTree("ok", "ok", "ok")}
    \cup {DirTree(x, "ok", "ok") : x \in {"encrypted", "broken"}}
    \cup {DirTree("ok", x, "ok") : x \in {"encrypted", "broken"}}
    \cup {DirTree("ok", "ok", x) : x \in {"encrypted", "broken"}}

\* the keyword arguments handed on to HwpHwpxLoader, all of them spelled out
DirKwargs(mode, on_encrypted, on_error) ==
    [mode |-> mode,
     include_tables |-> TRUE, include_notes |-> TRUE, include_memos |-> TRUE,
     include_hyperlinks |-> TRUE, include_images |-> TRUE,
     images_dir |-> None, image_document_mode |-> "metadata_only",
     on_encrypted |-> on_encrypted, on_invalid |-> "raise", on_error |-> on_error,
     extra_metadata |-> <<>>, include_extracted_at |-> FALSE]

AnyGlob == <<"*", "*", "/", "*">>
DefaultExtensions == << <<".", "h", "w", "p">>, <<".", "h", "w", "p", "x">> >>

DirArgs(dir_path, glob, recursive, extensions, loader_kwargs) ==
    [dir_path |-> dir_path, glob |-> glob, recursive |-> recursive,
     extensions |-> extensions, loader_kwargs |-> loader_kwargs]

\* the calls that go with every tree: the default glob and extensions,
\* every directory policy, both modes
MainDirArgs ==
    {DirArgs(root, AnyGlob, TRUE, DefaultExtensions, DirKwargs("elements", e, o)) :
        e \in {"raise", "placeholder"}, o \in _VALID_ERROR_POLICIES}
    \cup {DirArgs(root, AnyGlob, TRUE, DefaultExtensions, DirKwargs("single", e, e)) :
            e \in {"raise", "skip"}}

\* the other calls: other globs and extensions, no or an illegal on_error,
\* an illegal mode, a glob of two levels without recursion, a root that is
\* missing or a file
OtherDirArgs ==
    LET k == DirKwargs("single", "placeholder", "skip")
    IN  {DirArgs(root, AnyGlob, FALSE, DefaultExtensions, k),
         DirArgs(root, <<"*", ".", "h", "w", "p">>, TRUE, DefaultExtensions, k),
         DirArgs(root, <<"*", "*", "/", "*", ".", "h", "w", "p">>, TRUE,
                 << <<" ", "H", "W", "P">>, <<".", "t", "x", "t">> >>, k),
         DirArgs(root, AnyGlob, TRUE, << <<".", "h", "w", "p">>, <<" ">> >>, k),
         DirArgs(root, AnyGlob, TRUE, DefaultExtensions,
                 [x \in DOMAIN k \ {"on_error"} |-> k[x]]),
         DirArgs(root, AnyGlob, TRUE, DefaultExtensions,
                 DirKwargs("single", "placeholder", "placeholder")),
         DirArgs(root, AnyGlob, TRUE, << <<".", "t", "x", "t">>, <<"h", "w", "p", "x">> >>,
                 DirKwargs("elements", "raise", "warn")),
         DirArgs(root, AnyGlob, TRUE, DefaultExtensions,
                 DirKwargs("bogus", "raise", "skip")),
         DirArgs(root, <<"*", "/", "*">>, FALSE, DefaultExtensions, k)}
        \cup {DirArgs(d, AnyGlob, TRUE, DefaultExtensions,
                      DirKwargs("single", "placeholder", o)) :
                 d \in {<<"m">>, r_n_txt}, o \in _VALID_ERROR_POLICIES}

\* the state before HwpHwpxDirectoryLoader(...) is called by the user
DirInit ==
    /\ \E tree \in DirTrees, a \in MainDirArgs \cup OtherDirArgs :
         /\ a \in MainDirArgs \/ tree \in {DirTree("ok", "ok", "ok"),
                                           DirTree("ok", "encrypted", "ok")}
         /\ fs = tree
         /\ dargs = a
    /\ dself = None /\ dpc = "new"
    /\ globbed = <<>> /\ files = <<>> /\ fidx = 0
    /\ args = None /\ self = NoLoader /\ pc = "idle"
    /\ reader = None /\ base_metadata = None /\ result = None
    /\ index = 0 /\ pos = 0
    /\ docs = <<>> /\ raised = NoExc /\ log = <<>> /\ events = <<>>

DirSpec == DirInit /\ [][DirNext]_vars

\* the files of PreSpec: a path with an unsupported extension, there or
\* not, a missing document, documents in lower and in upper case
PreWorlds ==
    {[p \in {n_txt} |-> File(DirParse("ok"))],
     [p \in {n_txt} |-> Missing],
     [p \in {a_hwp} |-> Missing],
     [p \in {a_hwp} |-> File(DirParse("ok"))],
     [p \in {u_HWPX} |-> File(DirParse("ok"))]}

PreInit ==
    \/ /\ fs \in PreWorlds
       /\ args \in PolicyArgs(CHOOSE p \in DOMAIN fs : TRUE)
       /\ InitLoader
       /\ NoDirectory
    \/ DirInit

\* both loaders, called by the user on paths that are and are not there
PreSpec == PreInit /\ [][DirNext]_vars

\* a list field of the result or a list method of the reader: not there
\* (None), there and empty, there with one item
SrcLists(x) == {None, <<(<<>>)>>, <<(<<x>>)>>}

\* the readers of SrcSpec: every structured field of the result is there or
\* not, and so is what the reader itself can enumerate
SrcParses ==
    {[Parse("none", FALSE, TRUE, b[1], <<>>, <<>>, <<>>, <<>>, <<>>)
        EXCEPT !.text = b[2],
               !.get_tables = gt,
               !.result = [text |-> b[1], tables |-> rt, notes |-> n, memos |-> m,
                           hyperlinks |-> h]] :
        b \in ElemBodies, gt \in SrcLists(TableA), rt \in SrcLists(TableA),
        n \in {None, <<(<<Endnote>>)>>}, m \in {None, <<(<<MemoA>>)>>},
        h \in {None, <<(<<LinkText>>)>>}}

SrcInit ==
    /\ fs \in {[p \in {a_hwp} |-> File(parse)] : parse \in SrcParses}
    /\ args \in {a \in ElemArgs : /\ a.include_tables /\ a.include_notes
                                  /\ a.include_memos /\ a.include_hyperlinks
                                  /\ a.include_images}
    /\ InitLoader
    /\ NoDirectory

\* HwpHwpxLoader over results that have and lack their structured fields
SrcSpec == SrcInit /\ [][Next]_vars

-----------------------------------------------------------------------------
(* Properties of the single-file loader, checked under Spec.               *)

ArgsLegal ==
    /\ args.mode \in {"single", "elements"}
    /\ args.on_encrypted \in {"raise", "skip", "placeholder"}
    /\ args.on_invalid \in {"raise", "skip", "placeholder"}
    /\ args.on_error \in {"raise", "skip", "warn"}
    /\ args.image_document_mode \in {"metadata_only", "save_and_reference"}

HasEvent(name) == \E i \in 1..Len(events) : events[i][1] = name

ExtractCalled == HasEvent("extract_text_with_notes")

\* the status gate of lazy_load has run: the reader has reported its status
GateActed == DOMAIN base_metadata # {} /\ pc # "status"

\* the reader reports the status and the policy that applies is `policy`;
\* an invalid document is one that is invalid and not encrypted
StatusCase(status, policy) ==
    \/ status = "encrypted" /\ reader.is_encrypted /\ self.on_encrypted = policy
    \/ status = "invalid" /\ ~reader.is_encrypted /\ ~reader.is_valid
       /\ self.on_invalid = policy

StatusTag(status) == IF status = "encrypted" THEN "ENCRYPTED" ELSE "INVALID"

\* C1: constructing HwpHwpxLoader with an illegal value of mode,
\* on_encrypted, on_invalid, on_error or image_document_mode raises at once:
\* no instance exists and nothing was called on the file system or the
\* parser; with legal values of all five the instance exists.
C1_ConstructionValidates ==
    pc # "new" =>
        IF ArgsLegal
        THEN self = args
        ELSE /\ pc = "raised"
             /\ raised.cls = "ValueError"
             /\ raised.msg[1] = "Invalid "
             /\ self = NoLoader
             /\ events = <<>>
             /\ docs = <<>>

C1_Witness ==
    /\ pc = "raised"
    /\ args.mode = "elements" /\ args.on_encrypted = "skip" /\ args.on_invalid = "skip"
    /\ args.on_error = "placeholder"
    /\ args.image_document_mode = "metadata_only"

\* C2: once the reader has reported the document encrypted (or invalid and
\* not encrypted) and the policy of that status is 'placeholder', whatever
\* mode and on_error are: exactly one document was produced, its content
\* starts with the bracketed upper-cased status followed by the file name,
\* its metadata has that status and element_type 'placeholder', nothing was
\* raised and extract_text_with_notes was never called.
C2_PlaceholderPolicy ==
    \A status \in {"encrypted", "invalid"} :
        GateActed /\ StatusCase(status, "placeholder") =>
            /\ pc \in {"return", "done"}
            /\ raised = NoExc
            /\ Len(docs) = 1
            /\ SubSeq(docs[1].page_content, 1, 3 + Len(PathName(self.file_path)))
                   = <<"[", StatusTag(status), "] ">> \o PathName(self.file_path)
            /\ docs[1].metadata["status"] = status
            /\ docs[1].metadata["element_type"] = "placeholder"
            /\ ~ExtractCalled

C2_Witness ==
    /\ pc = "done"
    /\ GateActed /\ StatusCase("invalid", "placeholder")
    /\ self.mode = "elements" /\ self.on_error = "raise"
    /\ self.extra_metadata # <<>>
    /\ Len(docs) = 1

\* C3: once the reader has reported the document encrypted (or invalid and
\* not encrypted) and the policy of that status is 'skip', whatever mode and
\* on_error are: the generator has ended with no document, no exception and
\* no warning, and extract_text_with_notes was never called.
C3_SkipPolicy ==
    \A status \in {"encrypted", "invalid"} :
        GateActed /\ StatusCase(status, "skip") =>
            /\ pc = "done"
            /\ docs = <<>>
            /\ raised = NoExc
            /\ log = <<>>
            /\ ~ExtractCalled

C3_Witness ==
    /\ pc = "done"
    /\ GateActed /\ StatusCase("encrypted", "skip")
    /\ self.on_error = "raise" /\ self.mode = "single"
    /\ docs = <<>>

\* C4: once the reader has reported the document encrypted (or invalid and
\* not encrypted) and the policy of that status is 'raise', whatever on_error
\* is: no document was produced and the caller got a HwpHwpxLoaderError whose
\* message holds the status and the file path.
C4_RaisePolicy ==
    \A status \in {"encrypted", "invalid"} :
        GateActed /\ StatusCase(status, "raise") =>
            /\ pc = "raised"
            /\ docs = <<>>
            /\ raised.cls = "HwpHwpxLoaderError"
            /\ status \in Range(raised.msg)
            /\ Contains(raised.msg, self.file_path)

C4_Witness ==
    /\ pc = "raised"
    /\ GateActed /\ StatusCase("invalid", "raise")
    /\ self.on_error = "skip"
    /\ raised.cls = "HwpHwpxLoaderError"

(* Properties of elements mode, checked under ElemSpec.                     *)

\* what the parser answers for the loader's file
TheParse == fs[self.file_path].parse

ElementsMode == self # NoLoader /\ self.mode = "elements"

\* a record of the hyperlink list is empty: nothing but white space in its
\* text and in its url
EmptyLink(link) ==
    /\ \A i \in 1..Len(link.text) : link.text[i] \in Whitespace
    /\ \A i \in 1..Len(link.url) : link.url[i] \in Whitespace

\* the element types a document's parts ask for, type by type: p is what
\* the parser answers, a the loader's arguments
BodyTypes(p) ==
    IF \E i \in 1..Len(p.result.text) : p.result.text[i] \notin Whitespace
    THEN <<"body">>
    ELSE IF \E i \in 1..Len(p.text) : p.text[i] \notin Whitespace
    THEN <<"body">>
    ELSE <<>>

TableTypes(p, a) ==
    IF a.include_tables THEN [i \in 1..Len(p.get_tables[1]) |-> "table"] ELSE <<>>

NoteTypes(p, a) ==
    IF a.include_notes
    THEN [i \in 1..Len(p.result.notes[1]) |->
             IF p.result.notes[1][i].note_type \in {<<"endnote">>, <<"Endnote">>}
             THEN "endnote" ELSE "footnote"]
    ELSE <<>>

MemoTypes(p, a) ==
    IF a.include_memos THEN [i \in 1..Len(p.result.memos[1]) |-> "memo"] ELSE <<>>

LinkTypes(p, a) ==
    IF a.include_hyperlinks
    THEN [i \in 1..Len(SelectSeq(p.result.hyperlinks[1],
                                 LAMBDA l : ~EmptyLink(l))) |-> "hyperlink"]
    ELSE <<>>

ImageTypes(p, a) ==
    IF a.include_images THEN [i \in 1..Len(p.get_images[1]) |-> "image"] ELSE <<>>

ExpectedTypesOf(p, a) ==
    BodyTypes(p) \o TableTypes(p, a) \o NoteTypes(p, a) \o MemoTypes(p, a)
        \o LinkTypes(p, a) \o ImageTypes(p, a)

ExpectedTypes == ExpectedTypesOf(TheParse, self)

\* C5: in elements mode the documents produced so far are, in order, the
\* first of: the body if it is not empty, all tables, all notes (each as
\* footnote or endnote), all memos, all hyperlinks, all images, with every
\* type left out whose flag is off; the k-th of them (from 0) has
\* element_index k; and when the generator has ended they are all there.
C5_ElementOrder ==
    ElementsMode =>
        /\ Len(docs) <= Len(ExpectedTypes)
        /\ \A k \in 1..Len(docs) :
             /\ docs[k].metadata["element_type"] = ExpectedTypes[k]
             /\ docs[k].metadata["element_index"] = k - 1
        /\ pc = "done" => Len(docs) = Len(ExpectedTypes)
        /\ pc # "raised"

C5_Witness ==
    /\ ElementsMode /\ pc = "done"
    /\ ~self.include_memos
    /\ Len(docs) = 6
    /\ [k \in 1..6 |-> docs[k].metadata["element_type"]]
         = <<"body", "table", "footnote", "endnote", "hyperlink", "image">>

\* the hyperlink records the loop of lines 366-378 has gone through
LinksDone ==
    IF ~ElementsMode \/ ~self.include_hyperlinks THEN <<>>
    ELSE IF pc = "hyperlinks" THEN SubSeq(TheParse.result.hyperlinks[1], 1, pos - 1)
    ELSE IF pc \in {"images", "done"} THEN TheParse.result.hyperlinks[1]
    ELSE <<>>

DocsOfType(t) == SelectSeq(docs, LAMBDA d : d.metadata["element_type"] = t)

\* C6: in elements mode an empty hyperlink record makes no document and
\* does not advance the index: there are as many hyperlink documents as
\* non-empty records gone through, the index that the next element gets is
\* the number of documents so far, and a step over an empty record changes
\* neither.
C6_EmptyHyperlinkSkipped ==
    /\ [](ElementsMode /\ pc \in {"hyperlinks", "images", "done"} =>
            /\ Len(DocsOfType("hyperlink"))
                 = Len(SelectSeq(LinksDone, LAMBDA l : ~EmptyLink(l)))
            /\ index = Len(docs)
            /\ \A k \in 1..Len(docs) : docs[k].metadata["element_index"] = k - 1)
    /\ [][(/\ ElementsMode /\ pc = "hyperlinks" /\ self.include_hyperlinks
           /\ pos <= Len(TheParse.result.hyperlinks[1])
           /\ EmptyLink(TheParse.result.hyperlinks[1][pos]))
          => (docs' = docs /\ index' = index /\ pos' = pos + 1)]_vars

C6_Witness ==
    /\ ElementsMode /\ pc = "done"
    /\ Len(TheParse.result.hyperlinks[1]) = 2
    /\ EmptyLink(TheParse.result.hyperlinks[1][1])
    /\ ~EmptyLink(TheParse.result.hyperlinks[1][2])
    /\ Len(DocsOfType("hyperlink")) = 1
    /\ Len(DocsOfType("image")) = 1
    /\ DocsOfType("image")[1].metadata["element_index"]
         = DocsOfType("hyperlink")[1].metadata["element_index"] + 1

-----------------------------------------------------------------------------
(* Runtime errors of the single-file loader, checked under Spec.            *)

\* the collaborator has answered a call with an exception
RuntimeRaised == HasEvent("raises")

C7_Outcome ==
    RuntimeRaised =>
        /\ events[Len(events)][1] = "raises"
        /\ self.on_error = "raise" =>
               /\ pc = "raised"
               /\ raised.cls = "HwpHwpxLoaderError"
               /\ raised.msg[1] = "Failed to parse "
               /\ Contains(raised.msg, self.file_path)
               /\ raised.msg[Len(raised.msg)] = events[Len(events)][2]
               /\ log = <<>>
        /\ self.on_error = "skip" =>
               pc = "done" /\ raised = NoExc /\ log = <<>>
        /\ self.on_error = "warn" =>
               /\ pc = "done" /\ raised = NoExc
               /\ Len(log) = 1 /\ log[1][1] = "Failed to parse "
        /\ events[Len(events) - 1][1] = "extract_text_with_notes" => docs = <<>>

\* C7: when the collaborator raises (Reader(), the metadata, the extraction
\* call, a table's rendering, an image's save), on_error alone decides:
\* 'raise' ends with a HwpHwpxLoaderError naming the exception's class and
\* the file path, 'skip' ends with no exception and no warning, 'warn' ends
\* with no exception and one warning starting "Failed to parse"; nothing is
\* called and no document is produced from the failure on, and no document
\* at all when the extraction call raised.
C7_RuntimeErrorPolicy ==
    /\ []C7_Outcome
    /\ [][RuntimeRaised' => docs' = docs]_vars

C7_Witness ==
    /\ RuntimeRaised
    /\ events[Len(events)][2] = "OSError"
    /\ self.on_error = "warn" /\ self.mode = "elements"
    /\ pc = "done"
    /\ Len(docs) = 7

-----------------------------------------------------------------------------
(* Properties of the directory loader, checked under DirSpec.              *)

\* _collect_files has run
ScanStarted == dself # None /\ fidx >= 1

DocSource(k) == docs[k].metadata["source"]

DocsOf(f) == SelectSeq(docs, LAMBDA d : d.metadata["source"] = f)

TypesOf(f) == [i \in 1..Len(DocsOf(f)) |-> DocsOf(f)[i].metadata["element_type"]]

\* a regular file below the root whose lower-cased extension is configured
Eligible(p) ==
    /\ fs[p].kind = "file"
    /\ StartsWith(p, dself.dir_path \o <<"/">>)
    /\ Lower(PathSuffix(p)) \in Range(dself.extensions)

\* C8: the file list of the directory loader holds only regular files below
\* the root whose lower-cased extension is in the configured set (all of
\* them under the default recursive glob), in strictly ascending order of
\* the path string whatever the order of enumeration; every document is of
\* one of these files, and the documents come grouped by file in that order.
C8_DirectoryOrder ==
    ScanStarted =>
        /\ \A i \in 1..Len(files) : Eligible(files[i]) /\ files[i] \in Range(globbed)
        /\ \A i, j \in 1..Len(files) : i < j => LtStr(files[i], files[j])
        /\ (dself.glob = AnyGlob /\ dself.recursive) =>
               \A p \in DOMAIN fs : Eligible(p) => p \in Range(files)
        /\ \A k \in 1..Len(docs) : DocSource(k) \in Range(files)
        /\ \A k, l \in 1..Len(docs) :
               k < l => DocSource(k) = DocSource(l) \/ LtStr(DocSource(k), DocSource(l))

C8_Witness ==
    /\ dpc = "done"
    /\ globbed = <<r_s_hwp_c_hwp, r_n_txt, r_a_hwpx, r_s_hwp, r_B_HWP>>
    /\ files = <<r_B_HWP, r_a_hwpx, r_s_hwp_c_hwp>>
    /\ Len(docs) = 12
    /\ DocSource(1) = r_B_HWP /\ DocSource(5) = r_a_hwpx /\ DocSource(12) = r_s_hwp_c_hwp

KwargsLegal(k) ==
    /\ k.mode \in {"single", "elements"}
    /\ k.on_encrypted \in {"raise", "skip", "placeholder"}
    /\ k.on_invalid \in {"raise", "skip", "placeholder"}
    /\ k.on_error \in {"raise", "skip", "warn"}
    /\ k.image_document_mode \in {"metadata_only", "save_and_reference"}

\* the status policy that applies to what the parser answers ("none": the
\* document is neither encrypted nor invalid)
StatusPolicy(p, k) ==
    IF p.is_encrypted THEN k.on_encrypted
    ELSE IF ~p.is_valid THEN k.on_invalid
    ELSE "none"

\* an exception escapes the processing of file f.  The files of DirSpec
\* fail, if at all, before their first document.
Escapes(f) ==
    \/ ~KwargsLegal(dself.loader_kwargs)
    \/ Lower(PathSuffix(f)) \notin {<<".", "h", "w", "p">>, <<".", "h", "w", "p", "x">>}
    \/ /\ dself.loader_kwargs.on_error = "raise"
       /\ \/ fs[f].parse.fail_at \in {"reader", "metadata"}
          \/ /\ fs[f].parse.fail_at = "extract"
             /\ StatusPolicy(fs[f].parse, dself.loader_kwargs) = "none"
    \/ /\ fs[f].parse.fail_at \notin {"reader", "metadata"}
       /\ StatusPolicy(fs[f].parse, dself.loader_kwargs) = "raise"

\* the element types of the documents of a file from which nothing escapes
FileDocTypes(f) ==
    IF fs[f].parse.fail_at \in {"reader", "metadata"} THEN <<>>
    ELSE IF StatusPolicy(fs[f].parse, dself.loader_kwargs) = "placeholder"
    THEN <<"placeholder">>
    ELSE IF StatusPolicy(fs[f].parse, dself.loader_kwargs) = "skip" THEN <<>>
    ELSE IF fs[f].parse.fail_at # "none" THEN <<>>
    ELSE IF dself.loader_kwargs.mode = "single" THEN <<"document">>
    ELSE ExpectedTypesOf(fs[f].parse, dself.loader_kwargs)

\* the warnings of the directory loader's except clause
LoadWarnings == SelectSeq(log, LAMBDA m : m[1] = "Failed to load file ")

C9_Outcome ==
    ScanStarted =>
        /\ \A i \in 1..Len(files) :
             /\ i > fidx => DocsOf(files[i]) = <<>>
             /\ (i < fidx /\ ~Escapes(files[i])) => TypesOf(files[i]) = FileDocTypes(files[i])
             /\ (i < fidx /\ Escapes(files[i])) => dself.on_error # "raise"
        /\ dself.on_error = "raise" =>
             /\ dpc = "raised" =>
                  /\ raised.cls = "HwpHwpxLoaderError"
                  /\ fidx <= Len(files)
                  /\ Escapes(files[fidx])
             /\ dpc = "done" => \A i \in 1..Len(files) : ~Escapes(files[i])
        /\ dself.on_error \in {"skip", "warn"} =>
             /\ dpc # "raised"
             /\ raised = NoExc
             /\ dpc = "done" =>
                  /\ fidx = Len(files) + 1
                  /\ Len(LoadWarnings)
                       = IF dself.on_error = "skip" THEN 0
                         ELSE Cardinality({i \in 1..Len(files) : Escapes(files[i])})

\* C9: when an exception escapes the processing of a file of the sorted
\* list: under on_error 'raise' the scan ends there with a
\* HwpHwpxLoaderError and no later file has a document; under 'skip' and
\* 'warn' nothing is raised, the scan goes on to the end and every later
\* file from which nothing escapes has all its documents ('warn' logs one
\* warning per failed file); the documents produced before stay as they are.
C9_DirectoryErrorPolicy ==
    /\ []C9_Outcome
    /\ [][Len(docs') >= Len(docs) /\ SubSeq(docs', 1, Len(docs)) = docs]_vars

C9_Witness ==
    /\ dpc = "done"
    /\ dself.on_error = "warn"
    /\ Len(files) = 3
    /\ Escapes(files[2])
    /\ Len(LoadWarnings) = 1
    /\ Len(DocsOf(files[1])) = 4 /\ DocsOf(files[2]) = <<>> /\ Len(DocsOf(files[3])) = 4

\* C10: a structured loader error is never wrapped a second time: the
\* error that reaches the caller is never a HwpHwpxLoaderError raised from
\* another HwpHwpxLoaderError.
C10_NeverRewrapped ==
    raised.cls = "HwpHwpxLoaderError" =>
        \/ raised.cause = <<>>
        \/ raised.cause[1].cls # "HwpHwpxLoaderError"

\* the per-file configuration handed to the directory loader is legal
PerFileConfigLegal(k) ==
    /\ k.mode \in {"single", "elements"}
    /\ k.on_encrypted \in {"raise", "skip", "placeholder"}
    /\ k.on_invalid \in {"raise", "skip", "placeholder"}
    /\ k.image_document_mode \in {"metadata_only", "save_and_reference"}

\* C11: a directory loader given a per-file configuration with an illegal
\* value of mode, on_encrypted, on_invalid or image_document_mode fails
\* when it is constructed, with a ValueError, whatever on_error is: no
\* instance exists and no scan ever starts.
C11_DirectoryConfigFatal ==
    (dpc \notin {"none", "new"} /\ ~PerFileConfigLegal(dargs.loader_kwargs)) =>
        /\ dpc = "raised"
        /\ dself = None
        /\ raised.cls = "ValueError"

\* p is a direct child of the root directory
DirectChild(p) ==
    /\ StartsWith(p, dself.dir_path \o <<"/">>)
    /\ \A i \in (Len(dself.dir_path) + 2)..Len(p) : p[i] # "/"

\* C12: with recursive off, whatever the glob: every file of the file list
\* is a direct child of the root directory, and so is the source of every
\* document.
C12_NonRecursiveSingleLevel ==
    (ScanStarted /\ ~dself.recursive) =>
        /\ \A i \in 1..Len(files) : DirectChild(files[i])
        /\ \A k \in 1..Len(docs) : DirectChild(DocSource(k))

-----------------------------------------------------------------------------
(* Preconditions of both loaders, checked under PreSpec.                   *)

\* the path names a document, whatever the case of its extension
NamesDocument(p) ==
    \/ EndsWith(Lower(p), <<".", "h", "w", "p">>)
    \/ EndsWith(Lower(p), <<".", "h", "w", "p", "x">>)

\* the call has failed with an error of class cls that no policy handled:
\* nothing was logged, wrapped or produced
FailedOutright(cls) ==
    /\ raised.cls = cls
    /\ raised.cause = <<>>
    /\ log = <<>>
    /\ docs = <<>>

\* C13: once lazy_load of HwpHwpxLoader has run its preconditions, for
\* every on_error: a path with an unsupported extension (looked at first,
\* whatever its case) has failed with ValueError, a missing file with
\* FileNotFoundError, in both cases with no reader created and no document;
\* once lazy_load of HwpHwpxDirectoryLoader has run its preconditions: a
\* missing root has failed with FileNotFoundError, a root that is no
\* directory with NotADirectoryError, with nothing enumerated.
C13_PreconditionsFirst ==
    /\ (dpc = "none" /\ self # NoLoader /\ pc \notin {"new", "lazy_load"}) =>
         IF ~NamesDocument(self.file_path)
         THEN /\ pc = "raised" /\ FailedOutright("ValueError")
              /\ raised.msg[1] = "Unsupported extension for "
              /\ events = <<>>
         ELSE IF fs[self.file_path].kind = "missing"
         THEN /\ pc = "raised" /\ FailedOutright("FileNotFoundError")
              /\ ~HasEvent("Reader")
         ELSE raised.cls \notin {"ValueError", "FileNotFoundError"}
    /\ (dself # None /\ dpc \notin {"new", "lazy_load"}) =>
         IF dself.dir_path \notin DOMAIN fs
         THEN /\ dpc = "raised" /\ FailedOutright("FileNotFoundError")
              /\ events = <<>> /\ files = <<>> /\ globbed = <<>>
         ELSE IF fs[dself.dir_path].kind # "dir"
         THEN /\ dpc = "raised" /\ FailedOutright("NotADirectoryError")
              /\ events = <<>> /\ files = <<>> /\ globbed = <<>>
         ELSE raised.cls \notin {"FileNotFoundError", "NotADirectoryError"}

C13_Witness ==
    /\ dpc = "raised"
    /\ raised.cls = "NotADirectoryError"
    /\ dself.on_error = "warn"
    /\ dself.dir_path = r_n_txt

-----------------------------------------------------------------------------
(* Single mode, checked under ElemSpec.                                    *)

SingleMode == self # NoLoader /\ self.mode = "single"

SectionHeadings == <<"## Tables", "## Notes", "## Memos", "## Hyperlinks", "## Images">>

\* the section's inclusion flag is set and the parser has answered with at
\* least one instance of its feature
SectionDue(h) ==
    CASE h = "## Tables" -> self.include_tables /\ TheParse.get_tables[1] # <<>>
      [] h = "## Notes" -> self.include_notes /\ TheParse.result.notes[1] # <<>>
      [] h = "## Memos" -> self.include_memos /\ TheParse.result.memos[1] # <<>>
      [] h = "## Hyperlinks" ->
             self.include_hyperlinks /\ TheParse.result.hyperlinks[1] # <<>>
      [] h = "## Images" -> self.include_images /\ TheParse.get_images[1] # <<>>

\* the headings that stand in a content, in its order
HeadingsOf(content) == SelectSeq(content, LAMBDA t : t \in Range(SectionHeadings))

\* C14: in single mode, with no status policy at work and no error, once
\* the document is out: it is the only one, its metadata has element_type
\* 'document' and no element_index, and its content is trimmed and made of
\* the body text, if there is one, at the head, and after it the sections
\* Tables, Notes, Memos, Hyperlinks, Images, in this order, each after a
\* blank line, a section being there exactly when its flag is set and the
\* parser has an instance of its feature; with no part at all it is empty.
C14_SingleDocument ==
    (SingleMode /\ pc \in {"return", "done"}) =>
        /\ raised = NoExc
        /\ Len(docs) = 1
        /\ docs[1].metadata["element_type"] = "document"
        /\ "element_index" \notin DOMAIN docs[1].metadata
        /\ LET content == docs[1].page_content
           IN  /\ HeadingsOf(content) = SelectSeq(SectionHeadings, SectionDue)
               /\ content # <<>> =>
                    /\ content[1] \notin Whitespace
                    /\ content[Len(content)] \notin Whitespace
               /\ IF BodyTypes(TheParse) # <<>>
                  THEN /\ content # <<>>
                       /\ content[1] \in {"body", "reader text"}
                  ELSE content = <<>> \/ content[1] \in Range(SectionHeadings)
               /\ \A i \in 2..Len(content) :
                    content[i] \in Range(SectionHeadings) => content[i - 1] = "\n\n"

C14_Witness ==
    /\ SingleMode /\ pc = "done"
    /\ ~self.include_memos
    /\ TheParse.result.memos[1] # <<>>
    /\ docs[1].page_content[1] = "body"
    /\ HeadingsOf(docs[1].page_content)
         = <<"## Tables", "## Notes", "## Hyperlinks", "## Images">>

-----------------------------------------------------------------------------
(* The priority of the status checks, checked under Spec.                  *)

\* what a status policy has made of a document of the given status
StatusOutcome(policy, status) ==
    CASE policy = "raise" ->
             /\ pc = "raised"
             /\ raised.cls = "HwpHwpxLoaderError"
             /\ raised.msg = <<"Document skipped because it is ", status, ": ">>
                                 \o self.file_path
             /\ docs = <<>>
      [] policy = "skip" ->
             /\ pc = "done"
             /\ raised = NoExc
             /\ docs = <<>>
             /\ log = <<>>
      [] policy = "placeholder" ->
             /\ pc \in {"return", "done"}
             /\ raised = NoExc
             /\ Len(docs) = 1
             /\ docs[1].metadata["status"] = status
             /\ docs[1].page_content[2] = StatusTag(status)

\* C15: once the status gate has run on a document the reader reports as
\* encrypted, invalid or not, the outcome is the one of on_encrypted for
\* the status 'encrypted', whatever on_invalid is; on_invalid decides, for
\* the status 'invalid', only when the document is not encrypted.
C15_EncryptedFirst ==
    GateActed =>
        IF reader.is_encrypted THEN StatusOutcome(self.on_encrypted, "encrypted")
        ELSE IF ~reader.is_valid THEN StatusOutcome(self.on_invalid, "invalid")
        ELSE ~(pc = "raised" /\ raised.msg # <<>>
               /\ raised.msg[1] = "Document skipped because it is ")

C15_Witness ==
    /\ GateActed
    /\ reader.is_encrypted /\ ~reader.is_valid
    /\ self.on_encrypted = "skip" /\ self.on_invalid = "raise"
    /\ pc = "done" /\ docs = <<>> /\ raised = NoExc

-----------------------------------------------------------------------------
(* Where the parts of a document come from, checked under SrcSpec.         *)

\* a field that may be None, as a list
ListOf(field) == IF field = None THEN <<>> ELSE field[1]

Trimmed(text) == SelectSeq(text, LAMBDA t : t \notin Whitespace)

\* the number of documents each source asks for in elements mode
SourcesAgree(body, tables, notes, memos, links) ==
    /\ Len(DocsOfType("body")) = (IF body = <<>> THEN 0 ELSE 1)
    /\ \A k \in 1..Len(DocsOfType("body")) :
         Trimmed(DocsOfType("body")[k].page_content) = body
    /\ Len(DocsOfType("table")) = Len(tables)
    /\ Len(DocsOfType("footnote")) + Len(DocsOfType("endnote")) = Len(notes)
    /\ Len(DocsOfType("memo")) = Len(memos)
    /\ Len(DocsOfType("hyperlink")) = Len(links)

\* C16 (as the code has it): in elements mode, when the generator has
\* ended: the body is the text of the result, and the text of the reader
\* exactly when that of the result is empty after trimming; the tables are
\* those of the result when it has the field, and those the reader
\* enumerates when it has not; notes, memos and hyperlinks are those of the
\* result and none when the result lacks the field.
C16_FieldSources ==
    (ElementsMode /\ pc = "done") =>
        SourcesAgree(
            IF Trimmed(TheParse.result.text) # <<>> THEN Trimmed(TheParse.result.text)
            ELSE Trimmed(TheParse.text),
            IF TheParse.result.tables # None THEN TheParse.result.tables[1]
            ELSE ListOf(TheParse.get_tables),
            ListOf(TheParse.result.notes),
            ListOf(TheParse.result.memos),
            ListOf(TheParse.result.hyperlinks))

C16_Witness ==
    /\ ElementsMode /\ pc = "done"
    /\ TheParse.result.tables = None /\ TheParse.get_tables = <<(<<TableA>>)>>
    /\ TheParse.result.notes = None
    /\ TheParse.result.text = <<" ">>
    /\ Len(docs) = 2
    /\ docs[1].page_content = <<"reader text">>
    /\ docs[2].metadata["element_type"] = "table"

\* C16 (as stated): only the body falls back to the reader: in elements
\* mode a result that lacks tables, notes, memos or hyperlinks yields no
\* element of that kind, whatever the reader can enumerate.
C16_OnlyBodyFallsBack ==
    ElementsMode =>
        /\ TheParse.result.tables = None => DocsOfType("table") = <<>>
        /\ TheParse.result.notes = None =>
               DocsOfType("footnote") = <<>> /\ DocsOfType("endnote") = <<>>
        /\ TheParse.result.memos = None => DocsOfType("memo") = <<>>
        /\ TheParse.result.hyperlinks = None => DocsOfType("hyperlink") = <<>>

-----------------------------------------------------------------------------
(* Image materialization in elements mode, checked under ElemSpec.         *)

\* the string of an image document is the reference "{name} -> {path}"
IsReference(d) == " -> " \in Range(d.page_content)

\* the string is the description "{name} ({format}) from {source file name}"
IsDescription(d) ==
    /\ " (" \in Range(d.page_content)
    /\ ") from " \in Range(d.page_content)

EventsNamed(name) == SelectSeq(events, LAMBDA e : e[1] = name)

\* C17: the string of every image document is the reference or the
\* description; an image that got the description has no saved_path in its
\* metadata, and no directory was created and no file saved for it: there
\* are no more mkdir and save calls than images that got the reference.
C17_DescriptionNoSideEffect ==
    ElementsMode =>
        /\ \A k \in 1..Len(DocsOfType("image")) :
             /\ IsReference(DocsOfType("image")[k]) # IsDescription(DocsOfType("image")[k])
             /\ IsDescription(DocsOfType("image")[k]) =>
                    "saved_path" \notin DOMAIN DocsOfType("image")[k].metadata
        /\ Len(EventsNamed("mkdir")) <= Len(SelectSeq(DocsOfType("image"), IsReference))
        /\ Len(EventsNamed("save")) <= Len(SelectSeq(DocsOfType("image"), IsReference))

-----------------------------------------------------------------------------
(* The hyperlinks of single mode against those of elements mode, checked   *)
(* under ElemSpec.                                                         *)

\* the places of the Hyperlinks heading in a content
HyperlinkHeadings(content) == {i \in 1..Len(content) : content[i] = "## Hyperlinks"}

\* C18: in single mode with hyperlinks included, once the document is out:
\* its content has a Hyperlinks section exactly when elements mode emits a
\* hyperlink document for the same result, that is when a record of the
\* hyperlink list is not empty; and the heading is followed by a line.
C18_HyperlinkSectionAgrees ==
    (SingleMode /\ self.include_hyperlinks /\ pc = "done") =>
        /\ HyperlinkHeadings(docs[1].page_content) # {}
               <=> LinkTypes(TheParse, self) # <<>>
        /\ \A i \in HyperlinkHeadings(docs[1].page_content) :
               /\ i + 2 <= Len(docs[1].page_content)
               /\ docs[1].page_content[i + 1] = "\n"
               /\ docs[1].page_content[i + 2] = "- "

====
